---- MODULE Spec2Model ----
(***************************************************************************)
(* Figure-generation scripts of research_paper/scripts.                    *)
(*                                                                         *)
(* Each script is a Python process that runs the figure functions of its   *)
(* __main__ block in order.  A figure function opens a pyplot figure,      *)
(* issues its drawing calls (straight-line blocks and for-loops over       *)
(* literal collections), calls plt.tight_layout(), saves the current       *)
(* figure twice with plt.savefig() and prints a message.                   *)
(*                                                                         *)
(* Two runs are modelled side by side.  Each run has its own interpreter   *)
(* state (pyplot figure registry, current figure, numpy generator, stdout) *)
(* and both share the file system.  The runs may execute the same script   *)
(* or different ones and are interleaved arbitrarily.                      *)
(*                                                                         *)
(* Lengths are in millimetres where the source uses metres (1.5 -> 1500).  *)
(*                                                                         *)
(* Spec and FairSpec follow the runs call by call with the drawing body    *)
(* reduced to the number of axes calls of each block and loop iteration.   *)
(* DrawSpec follows one run through the statements of a drawing body and   *)
(* keeps the artists they add.                                             *)
(***************************************************************************)
EXTENDS Integers, Sequences, FiniteSets

\* Number of samples of a random series that the model keeps (the source
\* draws len(hours) = 25 of them).
MaxSamples == 1

\* The two processes that are run side by side.
RunIds == {1, 2}

\* Largest magnitude of a np.random.normal(0, 0.008) sample that the model
\* keeps, in steps of NoiseStep (the source's samples are unbounded).
MaxNoise == 2

\* Resolution at which a sample is kept, in mm.
NoiseStep == 15

\* Outcomes of one np.random.normal(0, 0.008) sample, in mm: any value of
\* either sign on the grid, among them zero, values within the clip margin
\* and values beyond it on both sides.
NoiseValues == {NoiseStep * k : k \in (0 - MaxNoise)..MaxNoise}

ScriptList ==
    <<"generate_block_diagram", "generate_charts", "generate_enclosure",
      "generate_flowcharts", "generate_pcb", "generate_schematic">>

Scripts == {ScriptList[i] : i \in DOMAIN ScriptList}

\* The figure functions a script's __main__ block calls, in order.
Main(s) ==
    CASE s = "generate_block_diagram" -> <<"create_block_diagram">>
      [] s = "generate_charts" ->
            <<"create_accuracy_chart", "create_environmental_tests",
              "create_comparison_chart">>
      [] s = "generate_enclosure" ->
            <<"create_enclosure_2d", "create_enclosure_3d",
              "create_mounting_diagram">>
      [] s = "generate_flowcharts" ->
            <<"create_main_flowchart", "create_adaptive_flowchart",
              "create_outlier_flowchart">>
      [] s = "generate_pcb" -> <<"create_pcb_layout">>
      [] s = "generate_schematic" -> <<"create_schematic">>

Functions == UNION {{Main(s)[i] : i \in DOMAIN Main(s)} : s \in Scripts}

\* The pyplot call that opens the drawing surface of a figure function.
Opener(f) == IF f = "create_enclosure_3d" THEN "figure" ELSE "subplots"

ImagesDir == "/workspaces/ultraman/research_paper/images/"

Path(d, b, e) == [dir |-> d, base |-> b, ext |-> e]

\* Argument of the first plt.savefig call of each figure function.
PngPath(f) ==
    CASE f = "create_block_diagram" -> Path(ImagesDir, "block_diagram", "png")
      [] f = "create_accuracy_chart" -> Path(ImagesDir, "accuracy_results", "png")
      [] f = "create_environmental_tests" -> Path(ImagesDir, "environmental_results", "png")
      [] f = "create_comparison_chart" -> Path(ImagesDir, "comparison_chart", "png")
      [] f = "create_enclosure_2d" -> Path(ImagesDir, "enclosure_2d", "png")
      [] f = "create_enclosure_3d" -> Path(ImagesDir, "enclosure_3d", "png")
      [] f = "create_mounting_diagram" -> Path(ImagesDir, "mounting_diagram", "png")
      [] f = "create_main_flowchart" -> Path(ImagesDir, "flowchart_main", "png")
      [] f = "create_adaptive_flowchart" -> Path(ImagesDir, "flowchart_adaptive", "png")
      [] f = "create_outlier_flowchart" -> Path(ImagesDir, "flowchart_outlier", "png")
      [] f = "create_pcb_layout" -> Path(ImagesDir, "pcb_layout", "png")
      [] f = "create_schematic" -> Path(ImagesDir, "circuit_schematic", "png")

\* Argument of the second plt.savefig call of each figure function.
PdfPath(f) ==
    CASE f = "create_block_diagram" -> Path(ImagesDir, "block_diagram", "pdf")
      [] f = "create_accuracy_chart" -> Path(ImagesDir, "accuracy_results", "pdf")
      [] f = "create_environmental_tests" -> Path(ImagesDir, "environmental_results", "pdf")
      [] f = "create_comparison_chart" -> Path(ImagesDir, "comparison_chart", "pdf")
      [] f = "create_enclosure_2d" -> Path(ImagesDir, "enclosure_2d", "pdf")
      [] f = "create_enclosure_3d" -> Path(ImagesDir, "enclosure_3d", "pdf")
      [] f = "create_mounting_diagram" -> Path(ImagesDir, "mounting_diagram", "pdf")
      [] f = "create_main_flowchart" -> Path(ImagesDir, "flowchart_main", "pdf")
      [] f = "create_adaptive_flowchart" -> Path(ImagesDir, "flowchart_adaptive", "pdf")
      [] f = "create_outlier_flowchart" -> Path(ImagesDir, "flowchart_outlier", "pdf")
      [] f = "create_pcb_layout" -> Path(ImagesDir, "pcb_layout", "pdf")
      [] f = "create_schematic" -> Path(ImagesDir, "circuit_schematic", "pdf")

\* Variant: the two savefig calls in the opposite order.
SaveCallsSwapped(f) == <<PdfPath(f), PngPath(f)>>

\* Variant: create_pcb_layout saves its PDF under the schematic's name.
SaveCallsCollide(f) ==
    <<PngPath(f),
      PdfPath(IF f = "create_pcb_layout" THEN "create_schematic" ELSE f)>>

\* The plt.savefig calls of a figure function, in source order.
SaveCalls(f) == <<PngPath(f), PdfPath(f)>>

AllPaths == {SaveCalls(f)[k] : f \in Functions, k \in 1..2}

\* Argument of the print call that ends each figure function.
Message(f) ==
    CASE f = "create_block_diagram" -> "Block diagram saved!"
      [] f = "create_accuracy_chart" -> "Accuracy results chart saved!"
      [] f = "create_environmental_tests" -> "Environmental test results saved!"
      [] f = "create_comparison_chart" -> "Comparison chart saved!"
      [] f = "create_enclosure_2d" -> "2D enclosure design saved!"
      [] f = "create_enclosure_3d" -> "3D enclosure design saved!"
      [] f = "create_mounting_diagram" -> "Mounting diagram saved!"
      [] f = "create_main_flowchart" -> "Main flowchart saved!"
      [] f = "create_adaptive_flowchart" -> "Adaptive sampling flowchart saved!"
      [] f = "create_outlier_flowchart" -> "Outlier rejection flowchart saved!"
      [] f = "create_pcb_layout" -> "PCB layout saved!"
      [] f = "create_schematic" -> "Circuit schematic saved!"

(***************************************************************************)
(* The drawing body of a figure function, between the call that opens the  *)
(* figure and plt.tight_layout(), is a sequence of segments.               *)
(*   B(c)       a straight-line block issuing c calls on axes objects      *)
(*   L(n, c)    a for-loop of n iterations, each issuing c such calls      *)
(*   R(c, m, p) a straight-line block that also draws m samples from       *)
(*              np.random.normal; p tells whether the samples reach a      *)
(*              drawing call                                               *)
(*   SubplotCall  a plt.subplot(...) call                                  *)
(***************************************************************************)
B(c) == [op |-> "draw", n |-> 1, c |-> c, rng |-> 0, plot |-> FALSE]
L(n, c) == [op |-> "draw", n |-> n, c |-> c, rng |-> 0, plot |-> FALSE]
R(c, m, p) == [op |-> "draw", n |-> 1, c |-> c, rng |-> m, plot |-> p]
SubplotCall == [op |-> "subplot", n |-> 1, c |-> 0, rng |-> 0, plot |-> FALSE]

Segs(f) ==
    CASE f = "create_block_diagram" -> <<B(45)>>
      [] f = "create_accuracy_chart" -> <<R(41, 10, FALSE)>>
      [] f = "create_environmental_tests" -> <<B(7), L(5, 1), R(28, 25, TRUE)>>
      [] f = "create_comparison_chart" ->
            <<B(0), SubplotCall, B(13), SubplotCall, B(4), L(5, 1), B(1)>>
      [] f = "create_enclosure_2d" ->
            <<B(18), L(4, 1), B(26), L(4, 1), B(4), L(4, 1), B(4)>>
      [] f = "create_enclosure_3d" -> <<B(3), L(4, 0), B(1), L(4, 1), B(12)>>
      [] f = "create_mounting_diagram" -> <<B(19), L(5, 1), B(8)>>
      [] f = "create_main_flowchart" -> <<B(75)>>
      [] f = "create_adaptive_flowchart" -> <<B(61)>>
      [] f = "create_outlier_flowchart" -> <<B(44)>>
      [] f = "create_pcb_layout" ->
            <<B(6), L(4, 2), B(10), L(4, 2), B(3), L(7, 2), B(3), L(3, 1),
              B(3), L(3, 1), B(3), L(3, 1), B(4), L(3, 1), B(1), L(5, 2),
              B(0), L(7, 2), B(2), L(3, 1), B(4), L(5, 2), B(13), L(4, 1),
              B(18), L(7, 1), L(2, 1), L(4, 1), B(13)>>
      [] f = "create_schematic" -> <<B(134), L(5, 4), B(3), L(5, 3), B(19)>>

RECURSIVE SumCalls(_, _)
SumCalls(segs, i) ==
    IF i = 0 THEN 0 ELSE segs[i].n * segs[i].c + SumCalls(segs, i - 1)

\* Number of axes calls a figure function issues from start to finish.
TotalCalls(f) == SumCalls(Segs(f), Len(Segs(f)))

Min(a, b) == IF a <= b THEN a ELSE b

\* np.clip on one value.
Clip(x, lo, hi) == IF x < lo THEN lo ELSE IF x > hi THEN hi ELSE x

ActualLevel == 1500
ClipMargin == 20

\* measured_levels of create_environmental_tests: actual level plus noise,
\* clipped to actual_level -/+ 0.02.
MeasuredLevels(smp) ==
    [i \in DOMAIN smp |->
        Clip(ActualLevel + smp[i], ActualLevel - ClipMargin, ActualLevel + ClipMargin)]

\* The sample vectors np.random.normal may return for a segment.
Samples(s) ==
    IF s.plot THEN [1..Min(s.rng, MaxSamples) -> NoiseValues] ELSE {<<>>}

VARIABLES
    script,   \* script[r]: the script run r executes
    pc,       \* pc[r]: position and local variables of run r
    figs,     \* figs[r]: figures registered with pyplot in run r, by number
    cur,      \* cur[r]: number of pyplot's current figure in run r, 0 if none
    rng,      \* rng[r]: samples drawn so far from numpy's global generator
    fs,       \* fs[p]: the file at path p
    writers,  \* writers[p]: the <<script, function>> pairs that wrote p
    handles,  \* open file handles, as <<run, path>>
    out,      \* out[r]: lines printed on stdout by run r
    log       \* log[r]: pyplot and print calls issued by run r, in order

vars == <<script, pc, figs, cur, rng, fs, writers, handles, out, log>>

NoPath == Path("", "", "")
NoFigure == [fn |-> "", calls |-> 0, tight |-> FALSE, data |-> <<>>]
NoFile == [exists |-> FALSE, content |-> NoFigure]

NewFigure(f) == [fn |-> f, calls |-> 0, tight |-> FALSE, data |-> <<>>]

Ev(op, f, fig, path, ok, content) ==
    [op |-> op, fn |-> f, fig |-> fig, path |-> path, ok |-> ok,
     content |-> content]

Pos(phase, seg, it, k) == [phase |-> phase, seg |-> seg, it |-> it, k |-> k]

Goto(p, q) ==
    [p EXCEPT !.phase = q.phase, !.seg = q.seg, !.it = q.it, !.k = q.k]

\* Where control goes after the call that opens the figure.
AfterOpen(f) == Pos("draw", 1, 1, 0)

\* Variant: control leaves the drawing body before its last segment.
AfterSegEarly(f, seg, it) ==
    IF it < Segs(f)[seg].n THEN Pos("draw", seg, it + 1, 0)
    ELSE IF seg < Len(Segs(f)) - 1 THEN Pos("draw", seg + 1, 1, 0)
    ELSE Pos("layout", 0, 0, 0)

\* Where control goes after iteration it of segment seg.
AfterSeg(f, seg, it) ==
    IF it < Segs(f)[seg].n THEN Pos("draw", seg, it + 1, 0)
    ELSE IF seg < Len(Segs(f)) THEN Pos("draw", seg + 1, 1, 0)
    ELSE Pos("layout", 0, 0, 0)

\* Variant: the message is printed after the first savefig call.
AfterSavePrintEarly(f, k) == Pos("print", 0, 0, 0)

\* Where control goes after the k-th savefig call has returned.
AfterSave(f, k) ==
    IF k < Len(SaveCalls(f)) THEN Pos("save", 0, 0, k + 1)
    ELSE Pos("print", 0, 0, 0)

\* Variant: the function calls plt.show() after the layout and blocks there.
AfterLayoutShow(f) == Pos("show", 0, 0, 0)

\* Where control goes after plt.tight_layout() has returned.
AfterLayout(f) == Pos("save", 0, 0, 1)

\* Variant: __main__ ends after its first figure function.
AfterPrintStop(s, p) == Goto(p, Pos("done", 0, 0, 0))

\* Where control goes after the print call: the next figure function of
\* __main__, or the end of the script.
AfterPrint(s, p) ==
    IF p.fi < Len(Main(s))
    THEN [fi |-> p.fi + 1, phase |-> "open", seg |-> 0, it |-> 0, k |-> 0,
          io |-> "closed", own |-> 0, ax |-> 0]
    ELSE Goto(p, Pos("done", 0, 0, 0))

\* Variant: the handle is not closed.
CloseFileLeak(hs, r, path) == hs

\* The open handles after run r has closed its handle on path.
CloseFile(hs, r, path) == hs \ {<<r, path>>}

\* Variant: a new figure becomes current only when there was none.
NewCurrentStale(c, n) == IF c = 0 THEN n ELSE c

\* pyplot's current figure after figure number n has been created while c
\* was current.
NewCurrent(c, n) == n

CurFn(r) == Main(script[r])[pc[r].fi]

\* Both runs are at the first statement of their script.  The runs are
\* interchangeable, so the script of run 1 is taken not to come after the
\* script of run 2 in ScriptList.
Init ==
    /\ \E i, j \in DOMAIN ScriptList :
          /\ i <= j
          /\ script = [r \in RunIds |-> IF r = 1 THEN ScriptList[i] ELSE ScriptList[j]]
    /\ pc = [r \in RunIds |->
                [fi |-> 1, phase |-> "open", seg |-> 0, it |-> 0, k |-> 0,
                 io |-> "closed", own |-> 0, ax |-> 0]]
    /\ figs = [r \in RunIds |-> <<>>]
    /\ cur = [r \in RunIds |-> 0]
    /\ rng = [r \in RunIds |-> 0]
    /\ fs = [p \in AllPaths |-> NoFile]
    /\ writers = [p \in AllPaths |-> {}]
    /\ handles = {}
    /\ out = [r \in RunIds |-> <<>>]
    /\ log = [r \in RunIds |-> <<>>]

\* fig, ax = plt.subplots(...)  /  fig = plt.figure(...)
Open(r) ==
    LET p == pc[r]
        f == CurFn(r)
        n == Len(figs[r]) + 1
    IN  /\ p.phase = "open"
        /\ figs' = [figs EXCEPT ![r] = Append(@, NewFigure(f))]
        /\ cur' = [cur EXCEPT ![r] = NewCurrent(@, n)]
        /\ pc' = [pc EXCEPT ![r] = Goto([p EXCEPT !.own = n, !.ax = n], AfterOpen(f))]
        /\ log' = [log EXCEPT ![r] = Append(@, Ev(Opener(f), f, n, NoPath, TRUE, NoFigure))]
        /\ UNCHANGED <<script, rng, fs, writers, handles, out>>

\* One straight-line block, or one iteration of a for-loop, of the drawing
\* body: its calls go to the figure the local axes belong to.
Draw(r) ==
    LET p == pc[r]
        f == CurFn(r)
    IN  /\ p.phase = "draw"
        /\ Segs(f)[p.seg].op = "draw"
        /\ \E smp \in Samples(Segs(f)[p.seg]) :
              figs' = [figs EXCEPT ![r][p.ax] =
                          [@ EXCEPT !.calls = @ + Segs(f)[p.seg].c,
                                    !.data = IF Segs(f)[p.seg].plot
                                             THEN MeasuredLevels(smp) ELSE @]]
        /\ rng' = [rng EXCEPT ![r] = @ + Segs(f)[p.seg].rng]
        /\ pc' = [pc EXCEPT ![r] = Goto(p, AfterSeg(f, p.seg, p.it))]
        /\ UNCHANGED <<script, cur, fs, writers, handles, out, log>>

\* ax = plt.subplot(...): the axes returned belong to the current figure.
Subplot(r) ==
    LET p == pc[r]
        f == CurFn(r)
    IN  /\ p.phase = "draw"
        /\ Segs(f)[p.seg].op = "subplot"
        /\ pc' = [pc EXCEPT ![r] = Goto([p EXCEPT !.ax = cur[r]], AfterSeg(f, p.seg, p.it))]
        /\ log' = [log EXCEPT ![r] = Append(@, Ev("subplot", f, cur[r], NoPath, TRUE, NoFigure))]
        /\ UNCHANGED <<script, figs, cur, rng, fs, writers, handles, out>>

\* plt.tight_layout() acts on the current figure.
TightLayout(r) ==
    LET p == pc[r]
        f == CurFn(r)
    IN  /\ p.phase = "layout"
        /\ figs' = [figs EXCEPT ![r][cur[r]].tight = TRUE]
        /\ pc' = [pc EXCEPT ![r] = Goto(p, AfterLayout(f))]
        /\ log' = [log EXCEPT ![r] = Append(@, Ev("tight_layout", f, cur[r], NoPath, TRUE, NoFigure))]
        /\ UNCHANGED <<script, cur, rng, fs, writers, handles, out>>

\* plt.savefig(path): the output file is opened for writing.
SaveOpen(r) ==
    LET p == pc[r]
        f == CurFn(r)
    IN  /\ p.phase = "save"
        /\ p.io = "closed"
        /\ handles' = handles \cup {<<r, SaveCalls(f)[p.k]>>}
        /\ pc' = [pc EXCEPT ![r].io = "open"]
        /\ UNCHANGED <<script, figs, cur, rng, fs, writers, out, log>>

\* Variant: the exception of a failed savefig is swallowed and the function
\* carries on.
SaveFailIgnored(r) ==
    LET p == pc[r]
        f == CurFn(r)
    IN  /\ p.phase = "save"
        /\ p.io = "closed"
        /\ pc' = [pc EXCEPT ![r] = Goto(p, AfterSave(f, p.k))]
        /\ log' = [log EXCEPT ![r] = Append(@, Ev("savefig", f, cur[r], SaveCalls(f)[p.k], FALSE, NoFigure))]
        /\ UNCHANGED <<script, figs, cur, rng, fs, writers, handles, out>>

\* plt.savefig(path) raises (the directory is missing, the path is not
\* writable): nothing catches the exception and the script ends.
SaveFail(r) ==
    LET p == pc[r]
        f == CurFn(r)
    IN  /\ p.phase = "save"
        /\ p.io = "closed"
        /\ pc' = [pc EXCEPT ![r].phase = "aborted"]
        /\ log' = [log EXCEPT ![r] = Append(@, Ev("savefig", f, cur[r], SaveCalls(f)[p.k], FALSE, NoFigure))]
        /\ UNCHANGED <<script, figs, cur, rng, fs, writers, handles, out>>

\* plt.savefig(path): the current figure is rendered into the file, the
\* file is closed and the call returns.
SaveWrite(r) ==
    LET p == pc[r]
        f == CurFn(r)
        path == SaveCalls(f)[p.k]
    IN  /\ p.phase = "save"
        /\ p.io = "open"
        /\ fs' = [fs EXCEPT ![path] = [exists |-> TRUE, content |-> figs[r][cur[r]]]]
        /\ writers' = [writers EXCEPT ![path] = @ \cup {<<script[r], f>>}]
        /\ handles' = CloseFile(handles, r, path)
        /\ pc' = [pc EXCEPT ![r] = Goto([p EXCEPT !.io = "closed"], AfterSave(f, p.k))]
        /\ log' = [log EXCEPT ![r] = Append(@, Ev("savefig", f, cur[r], path, TRUE, figs[r][cur[r]]))]
        /\ UNCHANGED <<script, figs, cur, rng, out>>

\* print("... saved!"), then the function returns to __main__, which calls
\* the next figure function or ends.
PrintSaved(r) ==
    LET p == pc[r]
        f == CurFn(r)
    IN  /\ p.phase = "print"
        /\ out' = [out EXCEPT ![r] = Append(@, Message(f))]
        /\ log' = [log EXCEPT ![r] = Append(@, Ev("print", f, 0, NoPath, TRUE, NoFigure))]
        /\ pc' = [pc EXCEPT ![r] = AfterPrint(script[r], p)]
        /\ UNCHANGED <<script, figs, cur, rng, fs, writers, handles>>

Step(r) ==
    \/ Open(r)
    \/ Draw(r)
    \/ Subplot(r)
    \/ TightLayout(r)
    \/ SaveOpen(r)
    \/ SaveFail(r)
    \/ SaveWrite(r)
    \/ PrintSaved(r)

Next == \E r \in RunIds : Step(r)

Spec == Init /\ [][Next]_vars

\* Each process is scheduled until it ends.
FairSpec == Spec /\ \A r \in RunIds : WF_vars(Step(r))

(***************************************************************************)
(* The drawing body in detail.                                             *)
(*                                                                         *)
(* A second specification follows one run through the statements of one    *)
(* figure function, one statement per step, and records the artists each   *)
(* axes call adds to the figure.  Coordinates and sizes are in thousandths  *)
(* of an axis unit (1.95 -> 1950); angles are in degrees where the source   *)
(* uses radians.                                                           *)
(***************************************************************************)

\* Largest index of the grid from which the arguments of a flowchart helper
\* call are drawn.
MaxGrid == 1

\* The run of the detailed specification.
Drawer == 1

NoPoint == <<0, 0>>

\* matplotlib artists, by the arguments of their constructors.
Artist(kind, xy, w, h, pad, pts, s, style) ==
    [kind |-> kind, xy |-> xy, w |-> w, h |-> h, pad |-> pad, pts |-> pts,
     s |-> s, style |-> style]

Rectangle(xy, w, h) == Artist("Rectangle", xy, w, h, 0, <<>>, "", "")

Circle(xy, radius) ==
    Artist("Circle", xy, 2 * radius, 2 * radius, 0, <<>>, "", "")

Ellipse(xy, w, h) == Artist("Ellipse", xy, w, h, 0, <<>>, "", "")

\* Polygon(xy): the closed polygon through the points xy.
Polygon(pts) == Artist("Polygon", NoPoint, 0, 0, 0, pts, "", "")

\* FancyBboxPatch(xy, width, height, boxstyle="round,pad=<pad>").
FancyBboxPatch(xy, w, h, pad) ==
    Artist("FancyBboxPatch", xy, w, h, pad, <<>>, "", "round")

\* ax.text(x, y, s).
Text(x, y, s) == Artist("Text", <<x, y>>, 0, 0, 0, <<>>, s, "")

\* ax.annotate(s, xy=xy, xytext=xytext, arrowprops=dict(arrowstyle=style)):
\* the arrow is the path from xytext to xy.
Annotation(s, xy, xytext, style) ==
    Artist("Annotation", xy, 0, 0, 0, <<xytext, xy>>, s, style)

\* ax.plot(xs, ys) and ax.fill(xs, ys).
Line2D(xs, ys) == Artist("Line2D", NoPoint, 0, 0, 0, <<xs, ys>>, "", "")
FilledPolygon(xs, ys) == Artist("FilledPolygon", NoPoint, 0, 0, 0, <<xs, ys>>, "", "")

\* Poly3DCollection(faces).
Poly3DCollection(faces) ==
    Artist("Poly3DCollection", NoPoint, 0, 0, 0, faces, "", "")

RECURSIVE SeqMin(_, _)
SeqMin(s, i) ==
    IF i = 1 THEN s[1]
    ELSE IF s[i] < SeqMin(s, i - 1) THEN s[i] ELSE SeqMin(s, i - 1)

RECURSIVE SeqMax(_, _)
SeqMax(s, i) ==
    IF i = 1 THEN s[1]
    ELSE IF s[i] > SeqMax(s, i - 1) THEN s[i] ELSE SeqMax(s, i - 1)

Xs(pts) == [i \in DOMAIN pts |-> pts[i][1]]
Ys(pts) == [i \in DOMAIN pts |-> pts[i][2]]

\* The box a patch covers in data coordinates, as drawn.  A rectangle spans
\* xy to xy + (width, height); boxstyle "round" draws the box enlarged by
\* pad on every side; a circle or ellipse is centred on xy; a polygon spans
\* its vertices.
Extent(a) ==
    CASE a.kind = "Rectangle" ->
            [x0 |-> a.xy[1], y0 |-> a.xy[2],
             x1 |-> a.xy[1] + a.w, y1 |-> a.xy[2] + a.h]
      [] a.kind = "FancyBboxPatch" ->
            [x0 |-> a.xy[1] - a.pad, y0 |-> a.xy[2] - a.pad,
             x1 |-> a.xy[1] + a.w + a.pad, y1 |-> a.xy[2] + a.h + a.pad]
      [] a.kind \in {"Circle", "Ellipse"} ->
            [x0 |-> a.xy[1] - a.w \div 2, y0 |-> a.xy[2] - a.h \div 2,
             x1 |-> a.xy[1] + a.w \div 2, y1 |-> a.xy[2] + a.h \div 2]
      [] a.kind = "Polygon" ->
            [x0 |-> SeqMin(Xs(a.pts), Len(a.pts)),
             y0 |-> SeqMin(Ys(a.pts), Len(a.pts)),
             x1 |-> SeqMax(Xs(a.pts), Len(a.pts)),
             y1 |-> SeqMax(Ys(a.pts), Len(a.pts))]

Width(a) == Extent(a).x1 - Extent(a).x0
Height(a) == Extent(a).y1 - Extent(a).y0

\* Twice the centre of the box a patch covers (kept doubled to stay in the
\* integers).
Centre2(a) == <<Extent(a).x0 + Extent(a).x1, Extent(a).y0 + Extent(a).y1>>

Abs(x) == IF x < 0 THEN -x ELSE x

\* Length of the arrow of an axis-parallel annotation.
Span(a) == Abs(a.pts[2][1] - a.pts[1][1]) + Abs(a.pts[2][2] - a.pts[1][2])

\* Ends of the arrow of an annotation: the path runs from xytext to xy, and
\* the arrow style puts a head at its end ("->"), its start ("<-") or both
\* ("<->").
Heads(a) ==
    CASE a.style = "->" -> {a.pts[2]}
      [] a.style = "<-" -> {a.pts[1]}
      [] a.style = "<->" -> {a.pts[1], a.pts[2]}
Tails(a) == {a.pts[1], a.pts[2]} \ Heads(a)

(***************************************************************************)
(* Statements.  A listing is the sequence of statements of a figure        *)
(* function in source order, for-loops over literal lists unrolled; every  *)
(* statement carries its source line.                                      *)
(***************************************************************************)

\* Expressions on the right of an assignment or in an argument.
Lit(v) == [e |-> "lit", v |-> v, of |-> ""]        \* a literal
Var(x) == [e |-> "var", v |-> <<>>, of |-> x]      \* x
LenOf(x) == [e |-> "len", v |-> <<>>, of |-> x]    \* len(x)
Closed(x) == [e |-> "closed", v |-> <<>>, of |-> x]  \* x + x[:1]
AllButLast(x) == [e |-> "butlast", v |-> <<>>, of |-> x]  \* x[:-1]
\* np.linspace(0, 2*np.pi, x, endpoint=False).tolist()
LinspaceTurn(x) == [e |-> "linspace", v |-> <<>>, of |-> x]

FullTurn == 360

Eval(ex, env) ==
    CASE ex.e = "lit" -> ex.v
      [] ex.e = "var" -> env[ex.of]
      [] ex.e = "len" -> Len(env[ex.of])
      [] ex.e = "closed" -> env[ex.of] \o SubSeq(env[ex.of], 1, 1)
      [] ex.e = "butlast" -> SubSeq(env[ex.of], 1, Len(env[ex.of]) - 1)
      [] ex.e = "linspace" ->
            [k \in 1..env[ex.of] |-> ((k - 1) * FullTurn) \div env[ex.of]]

Stmt(op, line, ax, var, a, b, art) ==
    [op |-> op, line |-> line, ax |-> ax, var |-> var, a |-> a, b |-> b,
     art |-> art]

NoExpr == Lit(<<>>)
NoArtist == Text(0, 0, "")

\* var = expr   (var += var[:1] is Assign(var, Closed(var)))
Assign(line, var, ex) == Stmt("assign", line, "", var, ex, NoExpr, NoArtist)
\* ax.add_patch(patch), ax.add_collection3d(collection)
AddPatch(line, ax, art) == Stmt("add_patch", line, ax, "", NoExpr, NoExpr, art)
\* ax.text(x, y, s)
TextCall(line, ax, x, y, s) ==
    Stmt("text", line, ax, "", NoExpr, NoExpr, Text(x, y, s))
\* ax.annotate(s, xy=..., xytext=..., arrowprops=dict(arrowstyle=...))
AnnotateCall(line, ax, s, xy, xytext, style) ==
    Stmt("annotate", line, ax, "", NoExpr, NoExpr, Annotation(s, xy, xytext, style))
\* ax.plot(xs, ys), ax.fill(xs, ys)
PlotCall(line, ax, xs, ys) == Stmt("plot", line, ax, "", xs, ys, NoArtist)
FillCall(line, ax, xs, ys) == Stmt("fill", line, ax, "", xs, ys, NoArtist)
\* ax.bar(xs, heights)
BarCall(line, ax, xs, hs) == Stmt("bar", line, ax, "", xs, hs, NoArtist)
\* ax.set_<prop>(value)
SetCall(line, ax, prop, ex) == Stmt("set", line, ax, prop, ex, NoExpr, NoArtist)
\* draw_<helper>(ax, ...): args is the record of its arguments
HelperCall(line, ax, fn, args) ==
    Stmt("helper", line, ax, fn, Lit(args), NoExpr, NoArtist)

RECURSIVE Flatten(_, _)
Flatten(ss, i) == IF i = 0 THEN <<>> ELSE Flatten(ss, i - 1) \o ss[i]

\* for x in items: body(x), given the statements of every iteration.
ForEach(bodies) == Flatten(bodies, Len(bodies))

(***************************************************************************)
(* create_enclosure_3d, generate_enclosure.py lines 174-262: the box, the  *)
(* cone, the mounting brackets and the sensor opening.                     *)
(***************************************************************************)
width == 4000
depth == 4000
height_top == 1500
height_cone == 2500
cone_bottom == 1500
bracket_size == 300

box_vertices ==
    << <<-width \div 2, -depth \div 2, 0>>, <<width \div 2, -depth \div 2, 0>>,
       <<width \div 2, depth \div 2, 0>>, <<-width \div 2, depth \div 2, 0>>,
       <<-width \div 2, -depth \div 2, height_top>>,
       <<width \div 2, -depth \div 2, height_top>>,
       <<width \div 2, depth \div 2, height_top>>,
       <<-width \div 2, depth \div 2, height_top>> >>

\* Python indexes from 0, sequences here from 1.
box_faces ==
    << <<box_vertices[1], box_vertices[2], box_vertices[6], box_vertices[5]>>,
       <<box_vertices[2], box_vertices[3], box_vertices[7], box_vertices[6]>>,
       <<box_vertices[3], box_vertices[4], box_vertices[8], box_vertices[7]>>,
       <<box_vertices[4], box_vertices[1], box_vertices[5], box_vertices[8]>>,
       <<box_vertices[5], box_vertices[6], box_vertices[7], box_vertices[8]>> >>

cone_vertices_top ==
    << <<-width \div 2, -depth \div 2, 0>>, <<width \div 2, -depth \div 2, 0>>,
       <<width \div 2, depth \div 2, 0>>, <<-width \div 2, depth \div 2, 0>> >>

cone_vertices_bottom ==
    << <<-cone_bottom \div 2, -cone_bottom \div 2, -height_cone>>,
       <<cone_bottom \div 2, -cone_bottom \div 2, -height_cone>>,
       <<cone_bottom \div 2, cone_bottom \div 2, -height_cone>>,
       <<-cone_bottom \div 2, cone_bottom \div 2, -height_cone>> >>

cone_faces ==
    << <<cone_vertices_top[1], cone_vertices_top[2],
         cone_vertices_bottom[2], cone_vertices_bottom[1]>>,
       <<cone_vertices_top[2], cone_vertices_top[3],
         cone_vertices_bottom[3], cone_vertices_bottom[2]>>,
       <<cone_vertices_top[3], cone_vertices_top[4],
         cone_vertices_bottom[4], cone_vertices_bottom[3]>>,
       <<cone_vertices_top[4], cone_vertices_top[1],
         cone_vertices_bottom[1], cone_vertices_bottom[4]>>,
       <<cone_vertices_bottom[1], cone_vertices_bottom[2],
         cone_vertices_bottom[3], cone_vertices_bottom[4]>> >>

\* The (bx, by) pairs the bracket loop runs over.
bracket_corners ==
    << <<-width \div 2 - 300, depth \div 2 - 500>>, <<width \div 2, depth \div 2 - 500>>,
       <<-width \div 2 - 300, -depth \div 2 + 200>>, <<width \div 2, -depth \div 2 + 200>> >>

\* bracket_verts as the loop body computes it for one (bx, by).
bracket_verts(b) ==
    << <<b[1], b[2], height_top>>,
       <<b[1] + bracket_size, b[2], height_top>>,
       <<b[1] + bracket_size, b[2] + bracket_size, height_top>>,
       <<b[1], b[2] + bracket_size, height_top>>,
       <<b[1], b[2], height_top + 300>>,
       <<b[1] + bracket_size, b[2], height_top + 300>>,
       <<b[1] + bracket_size, b[2] + bracket_size, height_top + 300>>,
       <<b[1], b[2] + bracket_size, height_top + 300>> >>

opening_size == 800

opening_verts ==
    << <<-opening_size \div 2, -opening_size \div 2, -height_cone>>,
       <<opening_size \div 2, -opening_size \div 2, -height_cone>>,
       <<opening_size \div 2, opening_size \div 2, -height_cone>>,
       <<-opening_size \div 2, opening_size \div 2, -height_cone>> >>

\* The body of the bracket loop: it assigns bracket_verts and makes no call
\* on the axes.
BracketLoopBody(b) == <<Assign(240, "bracket_verts", Lit(bracket_verts(b)))>>

Stmts_create_enclosure_3d ==
    <<AddPatch(229, "ax", Poly3DCollection(box_faces)),
      AddPatch(234, "ax", Poly3DCollection(cone_faces))>>
    \o ForEach([k \in DOMAIN bracket_corners |-> BracketLoopBody(bracket_corners[k])])
    \o <<AddPatch(262, "ax",
                  Poly3DCollection(<< <<opening_verts[1], opening_verts[2],
                                        opening_verts[3], opening_verts[4]>> >>))>>

(***************************************************************************)
(* create_comparison_chart, generate_charts.py lines 214-269: the radar    *)
(* chart (angles in degrees, values on the 0-10 scale) and the cost bar    *)
(* chart (x in thousandths of a category step, y in pesos).  The peso sign *)
(* of the bar labels is written "P".                                       *)
(***************************************************************************)
Digit(d) ==
    CASE d = 0 -> "0" [] d = 1 -> "1" [] d = 2 -> "2" [] d = 3 -> "3"
      [] d = 4 -> "4" [] d = 5 -> "5" [] d = 6 -> "6" [] d = 7 -> "7"
      [] d = 8 -> "8" [] d = 9 -> "9"

\* format(n, ',') for 0 <= n < 1000000: decimal digits, a comma before the
\* last three when there are more.
Grouped(n) ==
    LET lo == n % 1000
        hi == n \div 1000
        D3(m) == Digit(m \div 100) \o Digit((m \div 10) % 10) \o Digit(m % 10)
        D(m) == IF m >= 100 THEN D3(m)
                ELSE IF m >= 10 THEN Digit(m \div 10) \o Digit(m % 10)
                ELSE Digit(m)
    IN  IF hi = 0 THEN D(lo) ELSE D(hi) \o "," \o D3(lo)

\* ax = plt.subplot(nnn, polar=...)
SubplotStmt(line, ax, nnn, polar) ==
    Stmt("subplot", line, ax, "", Lit(<<nnn, polar>>), NoExpr, NoArtist)

\* One iteration of "for bar, cost in zip(bars, costs)": the value label of
\* the k-th bar.
BarTextCall(line, ax, k) == Stmt("bar_text", line, ax, "", Lit(k), NoExpr, NoArtist)

\* Variant: the custom sensor is plotted at a cost of 950 pesos.
costs_dearer == <<950, 4500, 12000, 180, 350>>

costs == <<850, 4500, 12000, 180, 350>>

\* The percentage the savings annotation states.
stated_saving == 81

savings_text == Digit(stated_saving \div 10) \o Digit(stated_saving % 10)
                    \o "% cheaper\nthan MaxBotix"

BarLabelLoopBody(k) == <<BarTextCall(263, "ax2", k)>>

\* Variant: the angle list is not closed.
CloseAngles_omitted == <<>>

\* angles += angles[:1]
CloseAngles == <<Assign(228, "angles", Closed("angles"))>>

Stmts_create_comparison_chart ==
    <<Assign(214, "categories",
             Lit(<<"Accuracy", "Range", "Cost\n(Inverse)", "Power\nEfficiency",
                   "Waterproof\nRating", "Local\nAvailability">>)),
      Assign(215, "N", LenOf("categories")),
      Assign(218, "custom_sensor", Lit(<<9, 8, 9, 8, 9, 10>>)),
      Assign(219, "maxbotix", Lit(<<9, 8, 4, 7, 9, 3>>)),
      Assign(220, "generic", Lit(<<6, 7, 10, 6, 5, 8>>)),
      Assign(222, "angles", LinspaceTurn("N")),
      Assign(225, "custom_sensor", Closed("custom_sensor")),
      Assign(226, "maxbotix", Closed("maxbotix")),
      Assign(227, "generic", Closed("generic"))>>
    \o CloseAngles
    \o <<SubplotStmt(230, "ax1", 121, TRUE),
         SetCall(231, "ax1", "theta_offset", Lit(90)),
         SetCall(232, "ax1", "theta_direction", Lit(-1)),
         PlotCall(233, "ax1", Var("angles"), Var("custom_sensor")),
         FillCall(234, "ax1", Var("angles"), Var("custom_sensor")),
         PlotCall(235, "ax1", Var("angles"), Var("maxbotix")),
         FillCall(236, "ax1", Var("angles"), Var("maxbotix")),
         PlotCall(237, "ax1", Var("angles"), Var("generic")),
         FillCall(238, "ax1", Var("angles"), Var("generic")),
         SetCall(240, "ax1", "xticks", AllButLast("angles")),
         SetCall(241, "ax1", "xticklabels", Var("categories")),
         SetCall(242, "ax1", "ylim", Lit(<<0, 10>>)),
         SetCall(243, "ax1", "title", Lit("Feature Comparison (Higher is Better)")),
         SetCall(244, "ax1", "legend", Lit("upper right")),
         SubplotStmt(249, "ax2", 122, FALSE),
         Assign(251, "sensors",
                Lit(<<"Custom Sensor\n(This Study)", "MaxBotix\nMB7389",
                      "Senix\nToughSonic", "Generic\nJSN-SR04T",
                      "Generic\nA02YYUW">>)),
         Assign(252, "costs", Lit(costs)),
         BarCall(255, "ax2", Var("sensors"), Var("costs")),
         SetCall(257, "ax2", "ylabel", Lit("Cost (Philippine Peso P)")),
         SetCall(258, "ax2", "title", Lit("Cost Comparison")),
         SetCall(259, "ax2", "grid", Lit("y"))>>
    \o ForEach([k \in DOMAIN costs |-> BarLabelLoopBody(k)])
    \o <<AnnotateCall(267, "ax2", savings_text, <<0, 850>>, <<1500, 2500>>, "->")>>

(***************************************************************************)
(* create_enclosure_2d, generate_enclosure.py lines 21-38, 91-100, 109-120 *)
(* and 152-159: the axes set-up, the enclosure body and cone of the side   *)
(* view, the outer body of the top view, and the dimension arrows with     *)
(* their labels.  axhline/axvline are lines across the axes limits.        *)
(***************************************************************************)
Stmts_create_enclosure_2d ==
    <<SetCall(21, "ax1", "xlim", Lit(<<-3000, 3000>>)),
      SetCall(22, "ax1", "ylim", Lit(<<-4000, 2000>>)),
      SetCall(23, "ax1", "aspect", Lit("equal")),
      SetCall(24, "ax1", "title", Lit("Enclosure Cross-Section (Side View)")),
      SetCall(25, "ax1", "xlabel", Lit("Width (cm)")),
      SetCall(26, "ax1", "ylabel", Lit("Height (cm)")),
      SetCall(27, "ax1", "grid", Lit("both")),
      PlotCall(28, "ax1", Lit(<<-3000, 3000>>), Lit(<<0, 0>>)),
      PlotCall(29, "ax1", Lit(<<0, 0>>), Lit(<<-4000, 2000>>)),
      AddPatch(33, "ax1", Rectangle(<<-2000, 0>>, 4000, 1500)),
      AddPatch(38, "ax1", Polygon(<< <<-2000, 0>>, <<2000, 0>>,
                                     <<800, -2500>>, <<-800, -2500>> >>)),
      AnnotateCall(93, "ax1", "", <<-2000, 1950>>, <<2000, 1950>>, "<->"),
      TextCall(95, "ax1", 0, 2100, "8 cm"),
      AnnotateCall(98, "ax1", "", <<2400, 1500>>, <<2400, -2500>>, "<->"),
      TextCall(100, "ax1", 2700, -500, "8 cm"),
      SetCall(110, "ax2", "xlim", Lit(<<-3000, 3000>>)),
      SetCall(111, "ax2", "ylim", Lit(<<-3000, 3000>>)),
      SetCall(112, "ax2", "aspect", Lit("equal")),
      SetCall(113, "ax2", "title", Lit("Enclosure Top View")),
      SetCall(114, "ax2", "xlabel", Lit("Width (cm)")),
      SetCall(115, "ax2", "ylabel", Lit("Depth (cm)")),
      SetCall(116, "ax2", "grid", Lit("both")),
      AddPatch(120, "ax2", Rectangle(<<-2000, -2000>>, 4000, 4000)),
      AnnotateCall(153, "ax2", "", <<-2000, 2300>>, <<2000, 2300>>, "<->"),
      TextCall(155, "ax2", 0, 2500, "8 cm"),
      AnnotateCall(157, "ax2", "", <<2500, -2000>>, <<2500, 2000>>, "<->"),
      TextCall(159, "ax2", 2700, 0, "8 cm")>>

(***************************************************************************)
(* create_pcb_layout, generate_pcb.py lines 28-55, 66-114, 204-207 and     *)
(* 253-263: mounting holes, transducers, ICs and regulators of the top     *)
(* layer (ax1); mounting holes and reference outlines of the bottom layer  *)
(* (ax2).                                                                  *)
(***************************************************************************)
mounting_holes == << <<500, 500>>, <<9500, 500>>, <<500, 9500>>, <<9500, 9500>> >>

TopHoleLoopBody(m) ==
    <<AddPatch(31, "ax1", Circle(m, 200)), AddPatch(33, "ax1", Circle(m, 350))>>

BottomHoleLoopBody(m) == <<AddPatch(207, "ax2", Circle(m, 200))>>

\* for i in range(n)
Range(n) == [i \in 1..n |-> i - 1]

U2PinLoopBody(i) ==
    <<AddPatch(74, "ax1", Rectangle(<<3300, 5350 + i * 150>>, 200, 100)),
      AddPatch(75, "ax1", Rectangle(<<5500, 5350 + i * 150>>, 200, 100))>>

Q1PinLoopBody(i) == <<AddPatch(86, "ax1", Rectangle(<<6550 + i * 180, 6350>>, 100, 150))>>

Q2PinLoopBody(i) == <<AddPatch(96, "ax1", Rectangle(<<6550 + i * 180, 5050>>, 100, 150))>>

U3PinLoopBody(i) == <<AddPatch(108, "ax1", Rectangle(<<1650 + i * 300, 2300>>, 150, 200))>>

\* Variant: the outline of the second transducer is drawn at x = 4.5.
transducer_xs_shifted == <<2000, 4500>>

\* for tx_x in [2, 4]
transducer_xs == <<2000, 4000>>

TransducerOutlineLoopBody(tx_x) == <<AddPatch(257, "ax2", Circle(<<tx_x, 8000>>, 800))>>

\* for ic_outline in [(x, y, width, height), ...]
ic_outlines ==
    << <<1200, 5500, 1600, 800>>, <<3500, 5300, 2000, 1200>>,
       <<1500, 2500, 1200, 800>>, <<3500, 2500, 1000, 700>> >>

IcOutlineLoopBody(o) ==
    <<AddPatch(263, "ax2", Rectangle(<<o[1], o[2]>>, o[3], o[4]))>>

Stmts_create_pcb_layout ==
    ForEach([k \in DOMAIN mounting_holes |-> TopHoleLoopBody(mounting_holes[k])])
    \o <<AddPatch(38, "ax1", Circle(<<2000, 8000>>, 800)),
         AddPatch(40, "ax1", Circle(<<2000, 8000>>, 500)),
         TextCall(41, "ax1", 2000, 8000, "TX"),
         TextCall(42, "ax1", 2000, 7000, "40kHz"),
         AddPatch(46, "ax1", Circle(<<4000, 8000>>, 800)),
         AddPatch(48, "ax1", Circle(<<4000, 8000>>, 500)),
         TextCall(49, "ax1", 4000, 8000, "RX"),
         TextCall(50, "ax1", 4000, 7000, "40kHz"),
         AddPatch(55, "ax1", FancyBboxPatch(<<1200, 5500>>, 1600, 800, 20)),
         AddPatch(68, "ax1", FancyBboxPatch(<<3500, 5300>>, 2000, 1200, 20)),
         TextCall(69, "ax1", 4500, 5900, "LM324")>>
    \o ForEach([k \in DOMAIN Range(7) |-> U2PinLoopBody(Range(7)[k])])
    \o <<TextCall(76, "ax1", 4500, 5000, "U2"),
         AddPatch(82, "ax1", FancyBboxPatch(<<6500, 6500>>, 600, 600, 20)),
         TextCall(83, "ax1", 6800, 6800, "Q1")>>
    \o ForEach([k \in DOMAIN Range(3) |-> Q1PinLoopBody(Range(3)[k])])
    \o <<TextCall(87, "ax1", 6800, 6200, "BSS138"),
         AddPatch(92, "ax1", FancyBboxPatch(<<6500, 5200>>, 600, 600, 20)),
         TextCall(93, "ax1", 6800, 5500, "Q2")>>
    \o ForEach([k \in DOMAIN Range(3) |-> Q2PinLoopBody(Range(3)[k])])
    \o <<TextCall(97, "ax1", 6800, 4900, "BSS138"),
         AddPatch(103, "ax1", FancyBboxPatch(<<1500, 2500>>, 1200, 800, 20)),
         TextCall(104, "ax1", 2100, 2900, "LM7805")>>
    \o ForEach([k \in DOMAIN Range(3) |-> U3PinLoopBody(Range(3)[k])])
    \o <<TextCall(109, "ax1", 2100, 2100, "U3"),
         AddPatch(114, "ax1", FancyBboxPatch(<<3500, 2500>>, 1000, 700, 20))>>
    \o ForEach([k \in DOMAIN mounting_holes |-> BottomHoleLoopBody(mounting_holes[k])])
    \o ForEach([k \in DOMAIN transducer_xs |-> TransducerOutlineLoopBody(transducer_xs[k])])
    \o ForEach([k \in DOMAIN ic_outlines |-> IcOutlineLoopBody(ic_outlines[k])])

(***************************************************************************)
(* create_block_diagram, generate_block_diagram.py lines 64-83 and         *)
(* 127-129: the microcontroller, power and temperature-sensor blocks and   *)
(* the arrow between temperature sensor and microcontroller.  The bullet   *)
(* and arrow characters of the labels are written "*" and "->".            *)
(***************************************************************************)
Stmts_create_block_diagram ==
    <<AddPatch(67, "ax", FancyBboxPatch(<<10500, 4500>>, 3000, 3000, 50)),
      TextCall(68, "ax", 12000, 6000, "ESP32-S3\nMicrocontroller"),
      TextCall(69, "ax", 12000, 5200,
               "* GPIO Trigger\n* GPIO Echo\n* Timer/Counter\n* ADC (Temp)"),
      AddPatch(74, "ax", FancyBboxPatch(<<4000, 1000>>, 5500, 2000, 50)),
      TextCall(75, "ax", 6750, 2000, "Power Management"),
      TextCall(76, "ax", 6750, 1400,
               "5V Regulator (LM7805) -> 5V Rail | 3.3V Regulator (AMS1117) -> 3.3V Rail"),
      AddPatch(82, "ax", FancyBboxPatch(<<10500, 1000>>, 3000, 1500, 50)),
      TextCall(83, "ax", 12000, 1750, "Temperature Sensor\n(DS18B20/NTC)"),
      AnnotateCall(128, "ax", "", <<12000, 2500>>, <<12000, 4500>>, "->")>>

(***************************************************************************)
(* The flowchart helpers of generate_flowcharts.py: the artists each call  *)
(* adds to the axes, in order.  Division by two is exact on the arguments  *)
(* used (multiples of 0.01).                                               *)
(***************************************************************************)
draw_start_end(x, y, text, w, h) ==
    <<Ellipse(<<x, y>>, w, h), Text(x, y, text)>>

draw_process(x, y, text, w, h) ==
    <<FancyBboxPatch(<<x - w \div 2, y - h \div 2>>, w, h, 30), Text(x, y, text)>>

draw_decision(x, y, text, size) ==
    <<Polygon(<< <<x, y + size>>, <<x + (size * 12) \div 10, y>>,
                 <<x, y - size>>, <<x - (size * 12) \div 10, y>> >>),
      Text(x, y, text)>>

skew == 300

\* Variant: the parallelogram is skewed to one side only.
draw_io_one_sided(x, y, text, w, h) ==
    <<Polygon(<< <<x - w \div 2 + skew, y + h \div 2>>,
                 <<x + w \div 2 + skew, y + h \div 2>>,
                 <<x + w \div 2, y - h \div 2>>,
                 <<x - w \div 2, y - h \div 2>> >>),
      Text(x, y, text)>>

draw_io(x, y, text, w, h) ==
    <<Polygon(<< <<x - w \div 2 + skew, y + h \div 2>>,
                 <<x + w \div 2 + skew, y + h \div 2>>,
                 <<x + w \div 2 - skew, y - h \div 2>>,
                 <<x - w \div 2 - skew, y - h \div 2>> >>),
      Text(x, y, text)>>

\* Variant: the label is drawn whether or not it is empty.
draw_arrow_always_labelled(x1, y1, x2, y2, label) ==
    <<Annotation("", <<x2, y2>>, <<x1, y1>>, "->"),
      Text((x1 + x2) \div 2 + 150, (y1 + y2) \div 2, label)>>

draw_arrow(x1, y1, x2, y2, label) ==
    <<Annotation("", <<x2, y2>>, <<x1, y1>>, "->")>>
    \o (IF label # ""
        THEN <<Text((x1 + x2) \div 2 + 150, (y1 + y2) \div 2, label)>>
        ELSE <<>>)

ShapeHelpers == {"draw_start_end", "draw_process", "draw_decision", "draw_io"}
Helpers == ShapeHelpers \cup {"draw_arrow"}

\* Arguments of a helper call as one record: x, y and w, h (or size in w)
\* for a shape helper, (x, y) -> (x2, y2) for draw_arrow.
Args(x, y, x2, y2, text, w, h) ==
    [x |-> x, y |-> y, x2 |-> x2, y2 |-> y2, text |-> text, w |-> w, h |-> h]

NoArgs == Args(0, 0, 0, 0, "", 0, 0)

\* The artists a helper call adds.
Apply(fn, a) ==
    CASE fn = "draw_start_end" -> draw_start_end(a.x, a.y, a.text, a.w, a.h)
      [] fn = "draw_process" -> draw_process(a.x, a.y, a.text, a.w, a.h)
      [] fn = "draw_decision" -> draw_decision(a.x, a.y, a.text, a.w)
      [] fn = "draw_io" -> draw_io(a.x, a.y, a.text, a.w, a.h)
      [] fn = "draw_arrow" -> draw_arrow(a.x, a.y, a.x2, a.y2, a.text)

\* Default sizes of the shape helpers (width, height; size for a decision).
DefaultSize(fn) ==
    CASE fn = "draw_start_end" -> <<2000, 600>>
      [] fn = "draw_process" -> <<2500, 800>>
      [] fn = "draw_decision" -> <<800, 0>>
      [] fn = "draw_io" -> <<2200, 700>>

GridStep == 550

\* Coordinates a helper call is tried with.
Coords == {GridStep * k : k \in (0 - MaxGrid)..MaxGrid}

\* Sizes a shape helper is tried with: its default, and another.
SizesOf(fn) ==
    {DefaultSize(fn), <<DefaultSize(fn)[1] + 400, DefaultSize(fn)[2] + 200>>}

Labels == {"", "YES"}

\* The helper calls tried: every shape helper and draw_arrow on every
\* combination of the arguments above.
HelperCalls ==
    UNION {{[fn |-> fn, args |-> Args(x, y, 0, 0, t, sz[1], sz[2])] :
               x \in Coords, y \in Coords, t \in Labels, sz \in SizesOf(fn)} :
           fn \in ShapeHelpers}
    \cup {[fn |-> "draw_arrow", args |-> Args(x1, y1, x2, y2, t, 0, 0)] :
             x1 \in Coords, y1 \in Coords, x2 \in Coords, y2 \in Coords,
             t \in Labels}

NoCall == [fn |-> "", args |-> NoArgs]

(***************************************************************************)
(* The detailed specification.                                             *)
(***************************************************************************)

\* The figure functions followed statement by statement.
DrawnFunctions ==
    {"create_enclosure_3d", "create_comparison_chart", "create_enclosure_2d",
     "create_pcb_layout", "create_block_diagram"}

\* The statements of a figure function, over the line ranges given with
\* each listing.
Listing(f) ==
    CASE f = "create_enclosure_3d" -> Stmts_create_enclosure_3d
      [] f = "create_comparison_chart" -> Stmts_create_comparison_chart
      [] f = "create_enclosure_2d" -> Stmts_create_enclosure_2d
      [] f = "create_pcb_layout" -> Stmts_create_pcb_layout
      [] f = "create_block_diagram" -> Stmts_create_block_diagram

\* What one run executes: a figure function, or the opening of
\* create_main_flowchart (its title and its first helper call, lines 60-64)
\* with the helper and its arguments taken from HelperCalls.
Programs ==
    {[fn |-> f, call |-> NoCall] : f \in DrawnFunctions}
    \cup {[fn |-> "create_main_flowchart", call |-> c] : c \in HelperCalls}

Prog(p) ==
    IF p.call.fn = "" THEN Listing(p.fn)
    ELSE <<TextCall(60, "ax", 3000, 14500, "Main Measurement Algorithm Flowchart"),
           HelperCall(64, "ax", p.call.fn, p.call.args)>>

ScriptOf(f) == CHOOSE s \in Scripts : \E i \in DOMAIN Main(s) : Main(s)[i] = f

\* Local variables of the figure functions that are lists or are assigned
\* more than once.
Locals ==
    {"bracket_verts", "categories", "N", "custom_sensor", "maxbotix",
     "generic", "angles", "sensors", "costs"}

\* The figure as plt.subplots / plt.figure returns it: no artists yet.
NewCanvas(f) ==
    [fn |-> f, calls |-> 0, tight |-> FALSE, data |-> <<>>, items |-> <<>>,
     props |-> <<>>]

\* An artist on an axes, with the line of the call that added it.
Item(s, art) == [ax |-> s.ax, line |-> s.line, art |-> art]

DrawInit ==
    /\ \E pr \in Programs :
          /\ script = [r \in {Drawer} |-> ScriptOf(pr.fn)]
          /\ pc = [r \in {Drawer} |->
                      [fn |-> pr.fn, call |-> pr.call, i |-> 1,
                       env |-> [x \in Locals |-> <<>>]]]
          /\ figs = [r \in {Drawer} |-> <<NewCanvas(pr.fn)>>]
    /\ cur = [r \in {Drawer} |-> 1]
    /\ rng = [r \in {Drawer} |-> 0]
    /\ fs = [p \in AllPaths |-> NoFile]
    /\ writers = [p \in AllPaths |-> {}]
    /\ handles = {}
    /\ out = [r \in {Drawer} |-> <<>>]
    /\ log = [r \in {Drawer} |-> <<>>]

\* The statement the run is at.
At(r) == Prog(pc[r])[pc[r].i]

Running(r) == pc[r].i \in DOMAIN Prog(pc[r])

\* The figure after the artists arts have been added by statement s, one
\* axes call per artist.
Added(fig, s, arts) ==
    [fig EXCEPT !.calls = @ + Len(arts),
                !.items = @ \o [k \in DOMAIN arts |-> Item(s, arts[k])]]

\* var = expr: no call on the axes.
StepAssign(r) ==
    /\ Running(r)
    /\ At(r).op = "assign"
    /\ pc' = [pc EXCEPT ![r].i = @ + 1,
                        ![r].env[At(r).var] = Eval(At(r).a, pc[r].env)]
    /\ UNCHANGED <<script, figs, cur, rng, fs, writers, handles, out, log>>

\* ax.add_patch(p) / ax.add_collection3d(c): the artist joins the axes.
StepAddPatch(r) ==
    /\ Running(r)
    /\ At(r).op = "add_patch"
    /\ figs' = [figs EXCEPT ![r][cur[r]] = Added(@, At(r), <<At(r).art>>)]
    /\ pc' = [pc EXCEPT ![r].i = @ + 1]
    /\ UNCHANGED <<script, cur, rng, fs, writers, handles, out, log>>

\* draw_<helper>(ax, ...): the helper's artists join the axes.
StepHelper(r) ==
    /\ Running(r)
    /\ At(r).op = "helper"
    /\ figs' = [figs EXCEPT ![r][cur[r]] =
                   Added(@, At(r), Apply(At(r).var, At(r).a.v))]
    /\ pc' = [pc EXCEPT ![r].i = @ + 1]
    /\ UNCHANGED <<script, cur, rng, fs, writers, handles, out, log>>

\* ax.text(x, y, s).
StepText(r) ==
    /\ Running(r)
    /\ At(r).op = "text"
    /\ figs' = [figs EXCEPT ![r][cur[r]] = Added(@, At(r), <<At(r).art>>)]
    /\ pc' = [pc EXCEPT ![r].i = @ + 1]
    /\ UNCHANGED <<script, cur, rng, fs, writers, handles, out, log>>

\* ax.annotate(s, xy=..., xytext=..., arrowprops=...).
StepAnnotate(r) ==
    /\ Running(r)
    /\ At(r).op = "annotate"
    /\ figs' = [figs EXCEPT ![r][cur[r]] = Added(@, At(r), <<At(r).art>>)]
    /\ pc' = [pc EXCEPT ![r].i = @ + 1]
    /\ UNCHANGED <<script, cur, rng, fs, writers, handles, out, log>>

\* ax.plot(xs, ys): one line through the points (xs[k], ys[k]).
StepPlot(r) ==
    /\ Running(r)
    /\ At(r).op = "plot"
    /\ figs' = [figs EXCEPT ![r][cur[r]] =
                   Added(@, At(r), <<Line2D(Eval(At(r).a, pc[r].env),
                                            Eval(At(r).b, pc[r].env))>>)]
    /\ pc' = [pc EXCEPT ![r].i = @ + 1]
    /\ UNCHANGED <<script, cur, rng, fs, writers, handles, out, log>>

\* ax.fill(xs, ys): one filled polygon through the points (xs[k], ys[k]).
StepFill(r) ==
    /\ Running(r)
    /\ At(r).op = "fill"
    /\ figs' = [figs EXCEPT ![r][cur[r]] =
                   Added(@, At(r), <<FilledPolygon(Eval(At(r).a, pc[r].env),
                                                   Eval(At(r).b, pc[r].env))>>)]
    /\ pc' = [pc EXCEPT ![r].i = @ + 1]
    /\ UNCHANGED <<script, cur, rng, fs, writers, handles, out, log>>

\* The bars of ax.bar(xs, heights) over category labels xs: the k-th bar
\* is 0.8 wide, centred on k - 1 and as high as heights[k]; it is kept with
\* its category label.
Bars(xs, hs) ==
    [k \in DOMAIN hs |->
        Artist("Rectangle", <<(k - 1) * 1000 - 400, 0>>, 800, hs[k], 0, <<>>,
               xs[k], "")]

\* bars = ax.bar(xs, heights): one call on the axes, one bar per height.
StepBar(r) ==
    /\ Running(r)
    /\ At(r).op = "bar"
    /\ figs' = [figs EXCEPT ![r][cur[r]] =
                   [Added(@, At(r), Bars(Eval(At(r).a, pc[r].env),
                                         Eval(At(r).b, pc[r].env)))
                       EXCEPT !.calls = figs[r][cur[r]].calls + 1]]
    /\ pc' = [pc EXCEPT ![r].i = @ + 1]
    /\ UNCHANGED <<script, cur, rng, fs, writers, handles, out, log>>

\* The bars on axes ax of a figure, in order.
BarsOn(fig, ax) ==
    LET its == SelectSeq(fig.items,
                         LAMBDA it : it.ax = ax /\ it.art.kind = "Rectangle"
                                     /\ it.art.s # "")
    IN  [k \in DOMAIN its |-> its[k].art]

\* ax.text(bar.get_x() + bar.get_width()/2, bar.get_height() + 200,
\*         f'P{cost:,}') for the k-th bar and cost.
StepBarText(r) ==
    /\ Running(r)
    /\ At(r).op = "bar_text"
    /\ LET bar == BarsOn(figs[r][cur[r]], At(r).ax)[At(r).a.v]
           cost == pc[r].env["costs"][At(r).a.v]
       IN  figs' = [figs EXCEPT ![r][cur[r]] =
                       Added(@, At(r),
                             <<Text(bar.xy[1] + bar.w \div 2, bar.h + 200,
                                    "P" \o Grouped(cost))>>)]
    /\ pc' = [pc EXCEPT ![r].i = @ + 1]
    /\ UNCHANGED <<script, cur, rng, fs, writers, handles, out, log>>

\* The properties of a figure's axes after ax.set_<prop>(val).
SetProp(props, ax, prop, val) ==
    [k \in DOMAIN props \cup {<<ax, prop>>} |->
        IF k = <<ax, prop>> THEN val ELSE props[k]]

\* ax.set_<prop>(value), ax.grid(...), ax.legend(...).
StepSet(r) ==
    /\ Running(r)
    /\ At(r).op = "set"
    /\ figs' = [figs EXCEPT ![r][cur[r]].calls = @ + 1,
                            ![r][cur[r]].props =
                                SetProp(@, At(r).ax, At(r).var,
                                        Eval(At(r).a, pc[r].env))]
    /\ pc' = [pc EXCEPT ![r].i = @ + 1]
    /\ UNCHANGED <<script, cur, rng, fs, writers, handles, out, log>>

\* ax = plt.subplot(nnn, polar=...): new axes on the current figure.
StepSubplot(r) ==
    /\ Running(r)
    /\ At(r).op = "subplot"
    /\ figs' = [figs EXCEPT ![r][cur[r]].props =
                                SetProp(@, At(r).ax, "subplot", At(r).a.v)]
    /\ pc' = [pc EXCEPT ![r].i = @ + 1]
    /\ UNCHANGED <<script, cur, rng, fs, writers, handles, out, log>>

DrawStep(r) ==
    \/ StepAssign(r)
    \/ StepAddPatch(r)
    \/ StepHelper(r)
    \/ StepText(r)
    \/ StepAnnotate(r)
    \/ StepPlot(r)
    \/ StepFill(r)
    \/ StepBar(r)
    \/ StepBarText(r)
    \/ StepSet(r)
    \/ StepSubplot(r)

DrawNext == DrawStep(Drawer)

DrawSpec == DrawInit /\ [][DrawNext]_vars

(***************************************************************************)
(* Properties                                                              *)
(***************************************************************************)
Idx(r) == DOMAIN log[r]

IsOpen(e) == e.op \in {"subplots", "figure"}

\* The savefig calls run r has issued from figure function f, in order.
SavesOf(r, f) == SelectSeq(log[r], LAMBDA e : e.op = "savefig" /\ e.fn = f)

\* Figure function f of run r has printed its message.
Returned(r, f) == \E i \in Idx(r) : log[r][i].op = "print" /\ log[r][i].fn = f

\* The paths run r has written.
FilesWrittenBy(r) ==
    {log[r][i].path : i \in {j \in Idx(r) : log[r][j].op = "savefig" /\ log[r][j].ok}}

\* C1: every figure function issues exactly two save calls on its own
\* figure, first <name>.png and then <name>.pdf, with one base name, both
\* under /workspaces/ultraman/research_paper/images/.
C1_TwoSavesPngThenPdf ==
    \A r \in RunIds : \A f \in Functions :
        LET sv == SavesOf(r, f) IN
        /\ Len(sv) <= 2
        /\ \A i \in DOMAIN sv :
              /\ sv[i].path.dir = "/workspaces/ultraman/research_paper/images/"
              /\ sv[i].path.ext = (IF i = 1 THEN "png" ELSE "pdf")
              /\ sv[i].path.base = sv[1].path.base
              /\ sv[i].fig \in DOMAIN figs[r]
              /\ figs[r][sv[i].fig].fn = f
        /\ (Len(sv) = 2 => sv[1].ok)
        /\ (Returned(r, f) => Len(sv) = 2 /\ sv[2].ok)

C1_Witness ==
    \E r \in RunIds :
        /\ pc[r].phase = "print"
        /\ Len(SavesOf(r, CurFn(r))) = 2

\* C2 as stated: a script that has run to its end has written exactly two
\* image files.
C2_TwoFilesPerScript ==
    \A r \in RunIds :
        pc[r].phase = "done" => Cardinality(FilesWrittenBy(r)) = 2

\* C2 amended: a script that has run to its end has written exactly two
\* image files per figure function it runs (two in all for the block
\* diagram, PCB and schematic scripts, six in all for the charts, enclosure
\* and flowchart scripts), all of them its own save paths, and has printed
\* one line per figure function.
C2_TwoFilesPerFigure ==
    \A r \in RunIds :
        /\ FilesWrittenBy(r) \subseteq
              {SaveCalls(Main(script[r])[i])[k] : i \in 1..pc[r].fi, k \in 1..2}
        /\ pc[r].phase = "done" =>
              /\ Cardinality(FilesWrittenBy(r)) =
                    (IF script[r] \in {"generate_charts", "generate_enclosure",
                                       "generate_flowcharts"}
                     THEN 6 ELSE 2)
              /\ Cardinality(FilesWrittenBy(r)) = 2 * Len(Main(script[r]))
              /\ Len(out[r]) = Len(Main(script[r]))

C2_Witness ==
    \E r \in RunIds :
        /\ pc[r].phase = "done"
        /\ script[r] = "generate_charts"
        /\ Cardinality(FilesWrittenBy(r)) = 6

Ended(r) == pc[r].phase \in {"done", "aborted"}

\* C3 as stated: two complete runs of one script issue the same sequence of
\* calls with the same arguments and leave the same figures.
C3_SameCallsInTwoRuns ==
    \A r1, r2 \in RunIds :
        (script[r1] = script[r2] /\ pc[r1].phase = "done" /\ pc[r2].phase = "done")
            => (log[r1] = log[r2] /\ figs[r1] = figs[r2])

\* C4: a figure function opens its figure first, issues all of its drawing
\* calls and the layout before its first save, and never changes the figure
\* after a save, so both files of a figure hold the same content.
C4_SinglePass ==
    \A r \in RunIds : \A i \in Idx(r) :
        LET e == log[r][i] IN
        /\ (~IsOpen(e) => \E j \in 1..(i - 1) : IsOpen(log[r][j]) /\ log[r][j].fn = e.fn)
        /\ (e.op = "savefig" =>
              /\ figs[r][e.fig].calls = TotalCalls(e.fn)
              /\ figs[r][e.fig].tight
              /\ (e.ok => e.content = figs[r][e.fig]))

C4_Witness ==
    \E r \in RunIds :
        LET sv == SavesOf(r, "create_enclosure_2d") IN
        /\ Len(sv) = 2
        /\ sv[2].ok
        /\ sv[1].content = sv[2].content
        /\ sv[1].content.calls = 64

\* C5: a failed save ends the script at that call: it is the last call the
\* run ever issues, no figure of a later function exists, no message of the
\* failing or a later function is printed, and every file an earlier save
\* of the run wrote is still there.
C5_AbortOnFailedSave ==
    \A r \in RunIds :
        LET failed == {i \in Idx(r) : log[r][i].op = "savefig" /\ ~log[r][i].ok} IN
        /\ (failed # {} <=> pc[r].phase = "aborted")
        /\ failed \subseteq {Len(log[r])}
        /\ (pc[r].phase = "aborted" =>
              /\ log[r][Len(log[r])].fn = CurFn(r)
              /\ Len(figs[r]) = pc[r].fi
              /\ Len(out[r]) = pc[r].fi - 1
              /\ \A p \in FilesWrittenBy(r) : fs[p].exists)

C5_Witness ==
    \E r \in RunIds :
        /\ pc[r].phase = "aborted"
        /\ pc[r].fi = 2
        /\ pc[r].k = 2
        /\ Cardinality(FilesWrittenBy(r)) = 3

\* The paths a complete run of script s writes.
PathsOf(s) == {SaveCalls(Main(s)[i])[k] : i \in DOMAIN Main(s), k \in 1..2}

\* C6: no path is written by two different figure functions, whatever the
\* interleaving of the runs; the save paths are 24 different paths; and once
\* all runs are complete the files present are exactly the paths of the
\* scripts that ran.
C6_NoSharedPath ==
    /\ \A p \in AllPaths : Cardinality(writers[p]) <= 1
    /\ Cardinality(AllPaths) = 24
    /\ (\A r \in RunIds : pc[r].phase = "done") =>
          {p \in AllPaths : fs[p].exists} = UNION {PathsOf(script[r]) : r \in RunIds}

C6_Witness ==
    /\ script[1] = "generate_pcb"
    /\ script[2] = "generate_schematic"
    /\ \A r \in RunIds : pc[r].phase = "done"
    /\ Cardinality({p \in AllPaths : fs[p].exists}) = 4

\* C7: every subplot, layout and save call of a figure function acts on
\* the figure that function opened, the i-th figure of a run belongs to the
\* i-th function of __main__ and receives calls of that function only, and
\* a saved figure holds exactly the calls of its own function.
C7_OwnFigureOnly ==
    \A r \in RunIds :
        /\ \A i \in Idx(r) :
              LET e == log[r][i] IN
              e.op \in {"subplot", "tight_layout", "savefig"} =>
                  /\ e.fig \in DOMAIN figs[r]
                  /\ figs[r][e.fig].fn = e.fn
                  /\ (e.op = "savefig" /\ e.ok =>
                        e.content.fn = e.fn /\ e.content.calls = TotalCalls(e.fn))
        /\ \A n \in DOMAIN figs[r] :
              /\ figs[r][n].fn = Main(script[r])[n]
              /\ figs[r][n].calls <= TotalCalls(figs[r][n].fn)
        /\ (pc[r].phase = "draw" => pc[r].ax = pc[r].own /\ pc[r].own = pc[r].fi)

C7_Witness ==
    \E r \in RunIds :
        /\ script[r] = "generate_charts"
        /\ pc[r].fi = 3
        /\ pc[r].phase = "print"
        /\ cur[r] = 3

\* C8 as stated: nothing but a file handle is ever held: a figure is held
\* only while the function that opened it is running.
C8_OnlyFileHandleHeld ==
    \A r \in RunIds :
        /\ Cardinality({h \in handles : h[1] = r}) <= 1
        /\ \A n \in DOMAIN figs[r] : ~Ended(r) /\ figs[r][n].fn = CurFn(r)

\* C8 amended: the open file handles are exactly those of the savefig
\* calls in progress, one per run at most and none once the run has ended;
\* and every figure a run has opened stays registered (none is closed), so
\* a run holds as many figures as it has started figure functions.
C8_HandlePerWriteFiguresKept ==
    /\ handles = {<<r, SaveCalls(CurFn(r))[pc[r].k]>> :
                      r \in {x \in RunIds : pc[x].phase = "save" /\ pc[x].io = "open"}}
    /\ \A r \in RunIds :
          /\ Cardinality({h \in handles : h[1] = r}) <= 1
          /\ (Ended(r) => \A h \in handles : h[1] # r)
          /\ Len(figs[r]) = (IF pc[r].phase = "open" THEN pc[r].fi - 1 ELSE pc[r].fi)

C8_Witness ==
    \E r \in RunIds :
        /\ pc[r].phase = "done"
        /\ Len(figs[r]) = 3
        /\ handles = {}

\* C9: every run ends: it reaches the end of its script, or the savefig
\* call that raised.
C9_Terminates ==
    \A r \in RunIds : <>(pc[r].phase = "done" \/ pc[r].phase = "aborted")

C9_Witness ==
    \E r \in RunIds :
        /\ script[r] = "generate_pcb"
        /\ pc[r].phase = "done"
        /\ figs[r][1].calls = 179

\* C10: the message of a figure function is printed once, after both its
\* PNG save and its PDF save have returned, and stdout holds exactly the
\* messages printed.
C10_PrintAfterBothSaves ==
    \A r \in RunIds :
        LET prints == SelectSeq(log[r], LAMBDA e : e.op = "print") IN
        /\ \A i \in Idx(r) :
              log[r][i].op = "print" =>
                  /\ \E j, k \in 1..(i - 1) :
                        /\ j < k
                        /\ log[r][j].op = "savefig" /\ log[r][k].op = "savefig"
                        /\ log[r][j].fn = log[r][i].fn /\ log[r][k].fn = log[r][i].fn
                        /\ log[r][j].ok /\ log[r][k].ok
                        /\ log[r][j].path.ext = "png" /\ log[r][k].path.ext = "pdf"
                  /\ \A j \in Idx(r) :
                        (log[r][j].op = "print" /\ log[r][j].fn = log[r][i].fn) => j = i
        /\ Len(out[r]) = Len(prints)
        /\ \A n \in DOMAIN prints : out[r][n] = Message(prints[n].fn)
        /\ (pc[r].phase = "done" => Len(prints) = Len(Main(script[r])))

C10_Witness ==
    \E r \in RunIds :
        /\ pc[r].phase = "done"
        /\ script[r] = "generate_enclosure"
        /\ out[r] = <<"2D enclosure design saved!", "3D enclosure design saved!",
                      "Mounting diagram saved!">>

(***************************************************************************)
(* Properties of the drawn geometry (DrawSpec)                             *)
(***************************************************************************)
Canvas == figs[Drawer][1]

\* The artists on axes ax, in the order they were added.
ArtistsOn(ax) ==
    LET its == SelectSeq(Canvas.items, LAMBDA it : it.ax = ax)
    IN  [k \in DOMAIN its |-> its[k].art]

\* The artists added by the statement at source line n.
AddedAt(n) ==
    LET its == SelectSeq(Canvas.items, LAMBDA it : it.line = n)
    IN  [k \in DOMAIN its |-> its[k].art]

\* The run has executed the statement at index k of its listing.
Executed(k) == pc[Drawer].i > k

\* C11 as stated: once create_enclosure_3d has computed the vertices of a
\* mounting bracket, the 3D axes hold a drawn element made of them.
C11_BracketsDrawn ==
    (pc[Drawer].fn = "create_enclosure_3d" /\ pc[Drawer].call = NoCall) =>
        \A k \in DOMAIN bracket_corners :
            Executed(2 + k) =>
                \E n \in DOMAIN Canvas.items :
                    \E face \in DOMAIN Canvas.items[n].art.pts :
                        \A v \in DOMAIN Canvas.items[n].art.pts[face] :
                            Canvas.items[n].art.pts[face][v] \in
                                {bracket_verts(bracket_corners[k])[j] : j \in 1..8}

\* Every statement up to source line n has been executed.
Past(n) == ~Running(Drawer) \/ At(Drawer).line > n

InFn(f) == pc[Drawer].fn = f /\ pc[Drawer].call = NoCall

IsClosed(s, n) == Len(s) = n + 1 /\ s[Len(s)] = s[1]

\* C12: in the radar chart of create_comparison_chart, after "Complete the
\* loop" each of the three value series and the angle list has N + 1
\* elements and ends with its first element; every line and filled polygon
\* on the radar axes is drawn over angles and values of that length and
\* returns to its first point; and there are as many tick positions
\* (angles[:-1]) as category labels, namely N.
C12_RadarSeriesClosed ==
    InFn("create_comparison_chart") =>
        LET env == pc[Drawer].env
            N == env["N"]
        IN  /\ Past(228) =>
                  /\ N = 6
                  /\ \A x \in {"custom_sensor", "maxbotix", "generic", "angles"} :
                        IsClosed(env[x], N)
            /\ \A k \in DOMAIN Canvas.items :
                  Canvas.items[k].ax = "ax1" =>
                      LET a == Canvas.items[k].art IN
                      /\ a.kind \in {"Line2D", "FilledPolygon"}
                      /\ IsClosed(a.pts[1], N)
                      /\ IsClosed(a.pts[2], N)
                      /\ a.pts[1] = env["angles"]
            /\ Past(238) => Len(ArtistsOn("ax1")) = 6
            /\ Past(241) =>
                  /\ Len(Canvas.props[<<"ax1", "xticks">>]) = N
                  /\ Len(Canvas.props[<<"ax1", "xticklabels">>]) = N
                  /\ Canvas.props[<<"ax1", "xticklabels">>] = env["categories"]

C12_Witness ==
    /\ InFn("create_comparison_chart")
    /\ ~Running(Drawer)
    /\ Len(ArtistsOn("ax1")) = 6
    /\ ArtistsOn("ax1")[3].pts = << <<0, 60, 120, 180, 240, 300, 0>>,
                                    <<9, 8, 4, 7, 9, 3, 9>> >>
    /\ Canvas.props[<<"ax1", "xticks">>] = <<0, 60, 120, 180, 240, 300>>

\* (a / b) as a percentage rounded to the nearest whole number.
RoundPct(a, b) == (200 * a + b) \div (2 * b)

\* The height of the bar drawn for category label s.
PlottedCost(s) ==
    LET bars == BarsOn(Canvas, "ax2")
    IN  bars[CHOOSE k \in DOMAIN bars : bars[k].s = s].h

\* C13: the percentage in the annotation "81% cheaper than MaxBotix" is the
\* saving of the plotted custom-sensor cost relative to the plotted
\* MaxBotix cost, (4500 - 850) / 4500, rounded to a whole percent.
C13_StatedSavingMatchesBars ==
    (InFn("create_comparison_chart") /\ Past(267)) =>
        LET note == AddedAt(267)[1]
            custom == PlottedCost("Custom Sensor\n(This Study)")
            maxb == PlottedCost("MaxBotix\nMB7389")
        IN  /\ note.kind = "Annotation"
            /\ note.s = "81% cheaper\nthan MaxBotix"
            /\ custom = 850
            /\ maxb = 4500
            /\ stated_saving = RoundPct(maxb - custom, maxb)
            /\ stated_saving = RoundPct(4500 - 850, 4500)

C13_Witness ==
    /\ InFn("create_comparison_chart")
    /\ Past(267)
    /\ Len(AddedAt(267)) = 1
    /\ Len(BarsOn(Canvas, "ax2")) = 5
    /\ AddedAt(263)[2].s = "P4,500"

\* The extent, along the direction of dimension arrow a, of the part drawn
\* by the patches ps.
ExtentAlong(a, ps) ==
    IF a.pts[1][2] = a.pts[2][2]
    THEN SeqMax([k \in DOMAIN ps |-> Extent(ps[k]).x1], Len(ps))
            - SeqMin([k \in DOMAIN ps |-> Extent(ps[k]).x0], Len(ps))
    ELSE SeqMax([k \in DOMAIN ps |-> Extent(ps[k]).y1], Len(ps))
            - SeqMin([k \in DOMAIN ps |-> Extent(ps[k]).y0], Len(ps))

\* The patches a dimension arrow of create_enclosure_2d measures: the body
\* for the width, body and cone for the overall height, the outer body for
\* the width and depth of the top view.
Dimensioned(line) ==
    CASE line = 93 -> AddedAt(33)
      [] line = 98 -> AddedAt(33) \o AddedAt(38)
      [] line = 153 -> AddedAt(120)
      [] line = 157 -> AddedAt(120)

\* C14 as stated: in the 2D enclosure drawing every dimension arrow that is
\* followed by the label "8 cm" spans 8 axis units, and so does the part it
\* dimensions.
C14_EightCmSpansEight ==
    InFn("create_enclosure_2d") =>
        \A k \in DOMAIN Canvas.items :
            (Canvas.items[k].art.kind = "Text" /\ Canvas.items[k].art.s = "8 cm") =>
                LET arrow == Canvas.items[k - 1] IN
                /\ arrow.art.kind = "Annotation"
                /\ arrow.ax = Canvas.items[k].ax
                /\ Span(arrow.art) = 8000
                /\ ExtentAlong(arrow.art, Dimensioned(arrow.line)) = 8000

\* The patches the PCB bottom layer outlines, and the top-layer component
\* each one refers to, by the source lines that add them: the k-th
\* transducer circle, the k-th IC rectangle.
TopTransducers == AddedAt(38) \o AddedAt(46)
TopIcs == AddedAt(55) \o AddedAt(68) \o AddedAt(103) \o AddedAt(114)

\* The holes (radius 0.2) among the circles of the top mounting-hole loop.
TopHoles == AddedAt(31)

SameHoles ==
    /\ Len(AddedAt(207)) = 4
    /\ \A k \in 1..4 :
          /\ AddedAt(207)[k].xy = TopHoles[k].xy
          /\ AddedAt(207)[k].w = TopHoles[k].w
          /\ AddedAt(207)[k].w = 2 * 200

\* C15 as stated: every reference outline of the bottom layer covers the
\* same box as drawn (same position, same size) as its component on the top
\* layer, and the mounting holes agree.
C15_OutlinesSameAsDrawn ==
    (InFn("create_pcb_layout") /\ Past(263)) =>
        /\ \A k \in 1..2 : Extent(AddedAt(257)[k]) = Extent(TopTransducers[k])
        /\ \A k \in 1..4 : Extent(AddedAt(263)[k]) = Extent(TopIcs[k])
        /\ SameHoles

\* C15 amended: the two transducer outlines have the centre and radius of
\* the top-layer transducers; each of the four IC outlines is a rectangle
\* with the xy, width and height passed to its top-layer FancyBboxPatch, so
\* it has the same centre, while the rounded box drawn on the top layer is
\* larger by its padding of 0.02 on every side (0.04 in width and height);
\* the four mounting holes have the same centres and radius 0.2 on both
\* layers.
C15_OutlinesMatchNominalBox ==
    (InFn("create_pcb_layout") /\ Past(263)) =>
        /\ Len(AddedAt(257)) = 2
        /\ \A k \in 1..2 :
              /\ AddedAt(257)[k].kind = "Circle"
              /\ AddedAt(257)[k].xy = TopTransducers[k].xy
              /\ AddedAt(257)[k].w = TopTransducers[k].w
              /\ Extent(AddedAt(257)[k]) = Extent(TopTransducers[k])
        /\ Len(AddedAt(263)) = 4
        /\ \A k \in 1..4 :
              LET o == AddedAt(263)[k]
                  c == TopIcs[k]
              IN  /\ o.kind = "Rectangle" /\ c.kind = "FancyBboxPatch"
                  /\ o.xy = c.xy /\ o.w = c.w /\ o.h = c.h
                  /\ Centre2(o) = Centre2(c)
                  /\ Width(c) = Width(o) + 40
                  /\ Height(c) = Height(o) + 40
                  /\ Extent(c).x0 = Extent(o).x0 - 20
                  /\ Extent(c).y0 = Extent(o).y0 - 20
        /\ SameHoles

C15_Witness ==
    /\ InFn("create_pcb_layout")
    /\ ~Running(Drawer)
    /\ Len(ArtistsOn("ax2")) = 10
    /\ AddedAt(263)[2] = Rectangle(<<3500, 5300>>, 2000, 1200)
    /\ Extent(AddedAt(68)[1]) = [x0 |-> 3480, y0 |-> 5280, x1 |-> 5520, y1 |-> 6520]

\* Point p lies on the box patch a covers.
OnBox(p, a) ==
    /\ Extent(a).x0 <= p[1] /\ p[1] <= Extent(a).x1
    /\ Extent(a).y0 <= p[2] /\ p[2] <= Extent(a).y1

\* C16 as stated: the arrow commented "Temp sensor to MCU" starts on the
\* temperature-sensor block and has its only head on the microcontroller
\* block.
C16_TempArrowPointsToMcu ==
    (InFn("create_block_diagram") /\ Past(128)) =>
        LET arrow == AddedAt(128)[1]
            mcu_box == AddedAt(67)[1]
            temp_box == AddedAt(82)[1]
        IN  /\ \A p \in Heads(arrow) : OnBox(p, mcu_box)
            /\ \A p \in Tails(arrow) : OnBox(p, temp_box)
            /\ Heads(arrow) # {} /\ Tails(arrow) # {}

\* The helper call of a run that executes one, and what it has added.
TheCall == pc[Drawer].call
CallDone == TheCall.fn # "" /\ Past(64)

\* Polygon a is symmetric about the point c2 / 2: with every vertex it has
\* the vertex opposite to it.
SymmetricAbout(a, c2) ==
    \A i \in DOMAIN a.pts : \E j \in DOMAIN a.pts :
        /\ a.pts[i][1] + a.pts[j][1] = c2[1]
        /\ a.pts[i][2] + a.pts[j][2] = c2[2]

ShapeKind(fn) ==
    CASE fn = "draw_start_end" -> "Ellipse"
      [] fn = "draw_process" -> "FancyBboxPatch"
      [] fn = "draw_decision" -> "Polygon"
      [] fn = "draw_io" -> "Polygon"

\* C17: a call of draw_start_end, draw_process, draw_decision or draw_io
\* adds, whatever x, y and the sizes are, exactly two artists to the axes
\* and leaves the earlier ones alone: one shape of the helper's kind whose
\* centre is (x, y) (a polygon being symmetric about that point), followed
\* by one text at (x, y) holding the text argument.
C17_OneCentredShapeOneLabel ==
    (CallDone /\ TheCall.fn \in ShapeHelpers) =>
        LET a == TheCall.args
            new == AddedAt(64)
        IN  /\ Len(Canvas.items) = 3
            /\ Canvas.items[1].line = 60
            /\ Len(new) = 2
            /\ new[1].kind = ShapeKind(TheCall.fn)
            /\ Centre2(new[1]) = <<2 * a.x, 2 * a.y>>
            /\ (new[1].kind = "Polygon" =>
                    /\ Len(new[1].pts) = 4
                    /\ SymmetricAbout(new[1], <<2 * a.x, 2 * a.y>>))
            /\ (new[1].kind = "Polygon" \/ Width(new[1]) >= a.w)
            /\ new[2].kind = "Text"
            /\ new[2].xy = <<a.x, a.y>>
            /\ new[2].s = a.text

C17_Witness ==
    /\ CallDone
    /\ TheCall.fn = "draw_io"
    /\ TheCall.args.x = 550 /\ TheCall.args.y = -550
    /\ TheCall.args.w = 2600
    /\ AddedAt(64)[1].pts = << <<-450, -100>>, <<2150, -100>>,
                               <<1550, -1000>>, <<-1050, -1000>> >>

\* C18: a call of draw_arrow adds exactly one arrow, an annotation without
\* text whose path starts at (x1, y1) and whose only head is at (x2, y2);
\* it adds a text if and only if label is not empty, and then exactly one,
\* holding the label at ((x1 + x2) / 2 + 0.15, (y1 + y2) / 2).
C18_OneArrowLabelIffGiven ==
    (CallDone /\ TheCall.fn = "draw_arrow") =>
        LET a == TheCall.args
            new == AddedAt(64)
            texts == SelectSeq(new, LAMBDA n : n.kind = "Text")
            arrows == SelectSeq(new, LAMBDA n : n.kind = "Annotation")
        IN  /\ Len(Canvas.items) = 1 + Len(new)
            /\ Len(arrows) = 1
            /\ Len(new) = Len(arrows) + Len(texts)
            /\ new[1].kind = "Annotation"
            /\ new[1].s = ""
            /\ new[1].pts[1] = <<a.x, a.y>>
            /\ new[1].pts[2] = <<a.x2, a.y2>>
            /\ Heads(new[1]) = {<<a.x2, a.y2>>}
            /\ (Len(texts) = 1 <=> a.text # "")
            /\ (Len(texts) = 0 <=> a.text = "")
            /\ (a.text # "" =>
                    /\ texts[1].s = a.text
                    /\ 2 * (texts[1].xy[1] - 150) = a.x + a.x2
                    /\ 2 * texts[1].xy[2] = a.y + a.y2)

C18_Witness ==
    /\ CallDone
    /\ TheCall.fn = "draw_arrow"
    /\ TheCall.args.text = "YES"
    /\ TheCall.args.x = 550 /\ TheCall.args.y = 550
    /\ TheCall.args.x2 = 550 /\ TheCall.args.y2 = -550
    /\ AddedAt(64) = <<Annotation("", <<550, -550>>, <<550, 550>>, "->"),
                       Text(700, 0, "YES")>>

TypeOK ==
    /\ script \in [RunIds -> Scripts]
    /\ \A r \in RunIds :
          /\ pc[r].phase \in {"open", "draw", "layout", "save", "print", "done", "aborted"}
          /\ pc[r].fi \in DOMAIN Main(script[r])
          /\ cur[r] \in 0..Len(figs[r])
    /\ handles \subseteq (RunIds \X AllPaths)
====
